---- MODULE Spec2Model ----
(***************************************************************************)
(* Storage-volume lifecycle of the Redfish provider                         *)
(* (redfish/provider/resource_redfish_storage_volume.go).                   *)
(*                                                                          *)
(* Every declared volume resource runs at most one lifecycle operation at   *)
(* a time (Create, Read, Update, Delete); operations of different           *)
(* resources interleave at every remote call.  The remote side (iDRAC) is   *)
(* the environment: each remote call draws its answer nondeterministically. *)
(***************************************************************************)
EXTENDS Integers, Sequences, FiniteSets, TLC

\* ------------------------------------------------------------------ bounds
MaxAdvertised == 2      \* length of the advertised OperationApplyTime list
MaxControllers == 2     \* storage controllers of a system
MaxDrives == 2          \* drives attached to a controller / named in a plan
MaxVolumes == 2         \* volumes of a controller

\* ------------------------------------------------------- program constants
defaultStorageVolumeResetTimeout == 120
defaultStorageVolumeJobTimeout == 1200
intervalStorageVolumeJobCheckTime == 10
StatusAccepted == 202
StatusNotFound == 404
SettleDelay == 60
GraceDelay == 30

\* ------------------------------------------------------------------ domains
Resources == {"vol1", "vol2"}
Endpoints == {"bmcA", "bmcB"}
ImmediateApplyTime == "Immediate"
OnResetApplyTime == "OnReset"
ApplyTimes == {ImmediateApplyTime, OnResetApplyTime}
OperationApplyTimes == ApplyTimes \cup {"AtMaintenanceWindowStart"}
ResetTypes == {"ForceRestart", "GracefulRestart", "PowerCycle"}
JobRefs == {"", "/jobs/JID_1"}
Statuses == {200, StatusAccepted, 400}
DriveNames == {"Disk.0", "Disk.1"}
VolumeNames == {"vd0", "vd1"}
VolumeIDs == {"/Volumes/V0", "/Volumes/V1"}
ControllerIDs == {"RAID.1", "AHCI.1"}
SystemIDs == {"System.Embedded.1"}

SeqsUpTo(S, n) == UNION {[1..k -> S] : k \in 0..n}

\* models.RedfishStorageVolume, restricted to the attributes the lifecycle reads
\* or writes; ID "" is the unknown (computed) identifier of a plan.
Volume(ep, id, at, rt, rto, jto, sys, enc) ==
  [ Endpoint |-> ep, ID |-> id, SettingsApplyTime |-> at, ResetType |-> rt,
    ResetTimeout |-> rto, VolumeJobTimeout |-> jto, SystemID |-> sys,
    StorageControllerID |-> "RAID.1", VolumeName |-> "vd0", Encrypted |-> enc,
    CapacityBytes |-> 1000000000, OptimumIoSizeBytes |-> 65536,
    ReadCachePolicy |-> "ReadAhead", WriteCachePolicy |-> "WriteThrough",
    VolumeType |-> "Mirrored", Drives |-> <<"Disk.0", "Disk.1">>,
    DiskCachePolicy |-> "Enabled", RaidType |-> "RAID1" ]

\* (reset_timeout, volume_job_timeout) pairs a configuration may carry: the
\* defaults, and a configured pair
Timeouts ==
  { <<defaultStorageVolumeResetTimeout, defaultStorageVolumeJobTimeout>>,
    <<300, 600>> }

\* plans of the concurrent scenario: schema defaults, any endpoint, any apply time
ConcPlans ==
  { Volume(ep, "", at, "ForceRestart", defaultStorageVolumeResetTimeout,
           defaultStorageVolumeJobTimeout, "", FALSE) :
      ep \in Endpoints, at \in ApplyTimes }

\* plans of the single-resource scenario: every reset policy and timeout
FullPlans ==
  { Volume("bmcA", "", at, rt, t[1], t[2], "", enc) :
      at \in ApplyTimes, rt \in ResetTypes, t \in Timeouts, enc \in BOOLEAN }

NoState == [present |-> FALSE]
Stored(d) == [present |-> TRUE, d |-> d]

\* stored states left behind by an earlier successful create of a ConcPlans plan
ConcStates ==
  { Stored([p EXCEPT !.ID = "/Volumes/V0", !.SystemID = "System.Embedded.1"]) :
      p \in ConcPlans }

VARIABLES
  mutex,      \* redfishMutexKV: the endpoint keys currently locked
  tfstate,    \* the Terraform state of every resource
  op          \* the lifecycle operation each resource is running (or ran last)

vars == <<mutex, tfstate, op>>

Ev(e, k, n, m) == [ev |-> e, key |-> k, n |-> n, m |-> m]

\* the wait loop of the job poller before its first fetch: the fetches made, the
\* seconds waited, the last status fetched, the statuses seen, and its result
NoPoller == [polls |-> 0, elapsed |-> 0, last |-> "", seen |-> {}, result |-> ""]

NoOp ==
  [ kind |-> "none", pc |-> "idle", d |-> Volume("", "", "", "", 0, 0, "", FALSE),
    jobID |-> "", gen17 |-> FALSE, supported |-> "unknown", error |-> "",
    prior |-> NoState, trace |-> << >>, poller |-> NoPoller ]

Log(o, e, k, n, m) == [o EXCEPT !.trace = Append(@, Ev(e, k, n, m))]

\* the answer res to a mutating request, as the operation received it
Answer(o, res) ==
  Log(o, "Answer", res.location, res.status, IF res.err THEN 1 ELSE 0)

NewOp(kind, d, prior) == [NoOp EXCEPT !.kind = kind, !.d = d, !.prior = prior]

Range(s) == {s[i] : i \in 1..Len(s)}

\* ------------------------------------------------------------ remote answers
\* an HTTP answer to a mutating request: a transport error, or a status and the
\* Location header
Responses ==
  {[err |-> TRUE, status |-> 0, location |-> ""]}
    \cup [err : {FALSE}, status : Statuses, location : JobRefs]

AdvertisedLists == SeqsUpTo(OperationApplyTimes, MaxAdvertised)
AdvertisedAnswers ==
  {[err |-> TRUE, values |-> << >>]} \cup [err : {FALSE}, values : AdvertisedLists]
ControllerLists == SeqsUpTo(ControllerIDs, MaxControllers)
DriveLists == SeqsUpTo(DriveNames, MaxDrives)
VolumeLists == SeqsUpTo([Name : VolumeNames, ODataID : VolumeIDs], MaxVolumes)

\* ------------------------------------------------------------ pure helpers
\* a variant of LockKey with one key for the whole provider
LockKeyGlobal(d) == "redfish"

\* the mutex key of an operation on d
LockKey(d) == d.Endpoint

\* getStorageController: the first controller whose ID is diskControllerID
RECURSIVE getStorageController(_, _)
getStorageController(storageControllers, diskControllerID) ==
  IF storageControllers = << >> THEN [found |-> FALSE, id |-> ""]
  ELSE IF Head(storageControllers) = diskControllerID
       THEN [found |-> TRUE, id |-> Head(storageControllers)]
       ELSE getStorageController(Tail(storageControllers), diskControllerID)

\* a variant of checkOperationApplyTimes that accepts whenever the controller
\* advertises anything
checkOperationApplyTimesAny(optionToCheck, storageOperationApplyTimes) ==
  storageOperationApplyTimes # << >>

\* checkOperationApplyTimes: membership of optionToCheck, by a scan of the list
RECURSIVE checkOperationApplyTimes(_, _)
checkOperationApplyTimes(optionToCheck, storageOperationApplyTimes) ==
  IF storageOperationApplyTimes = << >> THEN FALSE
  ELSE IF optionToCheck = Head(storageOperationApplyTimes) THEN TRUE
       ELSE checkOperationApplyTimes(optionToCheck, Tail(storageOperationApplyTimes))

\* checkSettingsApplyTime: "" when applyTime may be used, else the error;
\* advertised is the answer of storage.GetOperationApplyTimeValues
checkSettingsApplyTime(advertised, applyTime) ==
  IF advertised.err THEN "couldn't retrieve operationApplyTimes from controller"
  ELSE IF ~checkOperationApplyTimes(applyTime, advertised.values)
       THEN "storage controller does not support settings_apply_time"
       ELSE ""

\* getDrives: the controller's drives whose name is one of driveNames, for every
\* pairing (v, w); an error unless as many were collected as names were given
RECURSIVE matches(_, _)
matches(name, driveNames) ==
  IF driveNames = << >> THEN << >>
  ELSE (IF name = Head(driveNames) THEN <<name>> ELSE << >>)
         \o matches(name, Tail(driveNames))

RECURSIVE drivesToReturn(_, _)
drivesToReturn(drives, driveNames) ==
  IF drives = << >> THEN << >>
  ELSE matches(Head(drives), driveNames) \o drivesToReturn(Tail(drives), driveNames)

getDrives(drives, driveNames) ==
  IF Len(driveNames) # Len(drivesToReturn(drives, driveNames))
  THEN [err |-> TRUE, drives |-> << >>]
  ELSE [err |-> FALSE, drives |-> drivesToReturn(drives, driveNames)]

\* createVolume: the job reference of the answer res to the POST, or an error
createVolume(res) ==
  IF res.err THEN [jobID |-> "", err |-> "transport"]
  ELSE IF res.status # StatusAccepted
       THEN [jobID |-> "", err |-> "the query was unsucessfull"]
  ELSE IF res.location = ""
       THEN [jobID |-> "", err |-> "there was some error when retreiving the jobID"]
  ELSE [jobID |-> res.location, err |-> ""]

\* updateVolume: the job reference of the answer res to the PATCH, or an error
updateVolume(res) ==
  IF res.err THEN [jobID |-> "", err |-> "transport"]
  ELSE IF res.status # StatusAccepted
       THEN [jobID |-> "", err |-> "the query was unsucessfull"]
  ELSE IF res.location = ""
       THEN [jobID |-> "", err |-> "there was some error when retreiving the jobID"]
  ELSE [jobID |-> res.location, err |-> ""]

\* a variant of deleteVolume that does not check the Location header
deleteVolumeNoJobCheck(res) ==
  IF res.err THEN [jobID |-> "", err |-> "error while deleting the volume"]
  ELSE IF res.status # StatusAccepted
       THEN [jobID |-> "", err |-> "the operation was not successful"]
  ELSE [jobID |-> res.location, err |-> ""]

\* deleteVolume: the job reference of the answer res to the DELETE, or an error
deleteVolume(res) ==
  IF res.err THEN [jobID |-> "", err |-> "error while deleting the volume"]
  ELSE IF res.status # StatusAccepted
       THEN [jobID |-> "", err |-> "the operation was not successful"]
  ELSE IF res.location = ""
       THEN [jobID |-> "", err |-> "there was some error when retreiving the jobID"]
  ELSE [jobID |-> res.location, err |-> ""]

\* a variant of getVolumeID that reports no error when no volume has the name
RECURSIVE getVolumeIDLenient(_, _)
\* a variant of getVolumeID that returns the last volume of the name
RECURSIVE getVolumeIDLast(_, _)
getVolumeIDLast(volumes, volumeName) ==
  IF volumes = << >> THEN [err |-> TRUE, volumeLink |-> ""]
  ELSE IF volumes[Len(volumes)].Name = volumeName
       THEN [err |-> FALSE, volumeLink |-> volumes[Len(volumes)].ODataID]
       ELSE getVolumeIDLast(SubSeq(volumes, 1, Len(volumes) - 1), volumeName)

getVolumeIDLenient(volumes, volumeName) ==
  IF volumes = << >> THEN [err |-> FALSE, volumeLink |-> ""]
  ELSE IF Head(volumes).Name = volumeName
       THEN [err |-> FALSE, volumeLink |-> Head(volumes).ODataID]
       ELSE getVolumeIDLenient(Tail(volumes), volumeName)

\* getVolumeID: the ODataID of the first volume named volumeName
RECURSIVE getVolumeID(_, _)
getVolumeID(volumes, volumeName) ==
  IF volumes = << >> THEN [err |-> TRUE, volumeLink |-> ""]
  ELSE IF Head(volumes).Name = volumeName
       THEN [err |-> FALSE, volumeLink |-> Head(volumes).ODataID]
       ELSE getVolumeID(Tail(volumes), volumeName)

\* ------------------------------------------------------- external components
\* mutexkv.Lock / Unlock on the process-wide table
MutexFree(key) == key \notin mutex
MutexLock(key) == mutex \cup {key}
MutexUnlock(key) == mutex \ {key}

\* powerOperator.PowerOperation: one reset action of resetType, then a wait for
\* the expected power state of at most maximumWaitTime; outcome is how it ends
PowerOutcomes == {"reached", "rejected", "timeout"}
PowerOperation(o, resetType, maximumWaitTime, checkInterval, outcome) ==
  Log(Log(o, "Reset", resetType, maximumWaitTime, checkInterval),
      "Power", outcome, 0, 0)

\* common.WaitForTaskToFinish: polls jobID every checkInterval for at most
\* maximumWaitTime; outcome is how it ends
JobOutcomes == {"Succeeded", "Failed", "TimedOut"}
WaitForTaskToFinish(o, jobID, checkInterval, maximumWaitTime, outcome) ==
  Log(Log(o, "Poll", jobID, checkInterval, maximumWaitTime),
      "Job", outcome, 0, 0)

\* what the controller advertises about applyTime, as a fact of the environment
Advertises(advertised, applyTime) ==
  IF advertised.err THEN "unknown"
  ELSE IF applyTime \in Range(advertised.values) THEN "yes" ELSE "no"

\* ------------------------------------------------- what the remote calls yield
\* For every input of the operation, the results its lookups can have over all
\* the answers of the controller.

\* getStorage: whether the controller diskControllerID is among the system's
StorageAnswers ==
  [id \in ControllerIDs |->
     {getStorageController(cs, id).found : cs \in ControllerLists}]

\* GetOperationApplyTimeValues and checkSettingsApplyTime: what the controller
\* advertises about applyTime, and the error of the check
ApplyTimeAnswers ==
  [at \in ApplyTimes |->
     {[supported |-> Advertises(adv, at), err |-> checkSettingsApplyTime(adv, at)] :
        adv \in AdvertisedAnswers}]

\* every requested name is the name of a drive of the list storage.Drives
\* returned
AllAttached(drives, driveNames) ==
  \A i \in DOMAIN driveNames : \E j \in DOMAIN drives : drives[j] = driveNames[i]

\* storage.Drives and getDrives, for every list of drive names of a plan
\* (drives has at least one element)
DrivesAnswers ==
  {[err |-> getDrives(all, driveNames).err,
    attached |-> AllAttached(all, driveNames)] :
     all \in DriveLists, driveNames \in DriveLists \ {<< >>}}

\* the list storage.Volumes returned holds a volume of that name
Named(volumes, name) == \E i \in DOMAIN volumes : volumes[i].Name = name

\* the ODataID of the volume of that name that comes first in the list, "" when
\* there is none
FirstNamed(volumes, name) ==
  IF ~Named(volumes, name) THEN ""
  ELSE LET i == CHOOSE i \in DOMAIN volumes :
                  /\ volumes[i].Name = name
                  /\ \A j \in 1..(i - 1) : volumes[j].Name # name
       IN volumes[i].ODataID

\* storage.Volumes and getVolumeID: the outcomes of getVolumeID on the lists a
\* controller can return, each with whether the list holds the name
VolumeIDAnswers ==
  [name \in VolumeNames |->
     {[err |-> getVolumeID(volumes, name).err,
       volumeLink |-> getVolumeID(volumes, name).volumeLink,
       named |-> Named(volumes, name),
       first |-> FirstNamed(volumes, name)] : volumes \in VolumeLists}]

Init ==
  /\ mutex = {}
  /\ tfstate \in [Resources -> {NoState} \cup ConcStates]
  /\ op = [r \in Resources |-> NoOp]

\* -------------------------------------------------------------------- Create
\* Create, up to the call of createRedfishStorageVolume: the plan is read and the
\* session is opened (NewConfig), which may fail
Create(r, plan) ==
  /\ op[r].pc = "idle"
  /\ ~tfstate[r].present
  /\ \E ok \in BOOLEAN :
       op' = [op EXCEPT ![r] =
                IF ok
                THEN [Log(NewOp("create", plan, tfstate[r]), "NewConfig", plan.Endpoint, 0, 0)
                        EXCEPT !.pc = "lock"]
                ELSE [Log(NewOp("create", plan, tfstate[r]), "NewConfig", plan.Endpoint, 0, 0)
                        EXCEPT !.error = "service error"]]
  /\ UNCHANGED <<mutex, tfstate>>

\* a variant of createReturn that unlocks at the end of the function only, not
\* on its error returns
createReturnLeak(r, o, err) ==
  /\ mutex' = IF err # "" THEN mutex ELSE MutexUnlock(LockKey(o.d))
  /\ op' = [op EXCEPT ![r] =
              [(IF err # "" THEN o ELSE Log(o, "Unlock", LockKey(o.d), 0, 0))
                 EXCEPT !.pc = "idle", !.error = err]]
  /\ tfstate' = IF err # "" THEN tfstate
                ELSE [tfstate EXCEPT ![r] = Stored(o.d)]

\* a return of createRedfishStorageVolume with diagnostics err ("" for none): the
\* deferred Unlock runs, then Create saves the plan unless there is an error
createReturn(r, o, err) ==
  /\ mutex' = MutexUnlock(LockKey(o.d))
  /\ op' = [op EXCEPT ![r] =
              [Log(o, "Unlock", LockKey(o.d), 0, 0)
                 EXCEPT !.pc = "idle", !.error = err]]
  /\ tfstate' = IF err # "" THEN tfstate
                ELSE [tfstate EXCEPT ![r] = Stored(o.d)]

\* a step of createRedfishStorageVolume that goes on to the next remote call
createGoto(r, o, pc) ==
  /\ op' = [op EXCEPT ![r] = [o EXCEPT !.pc = pc]]
  /\ UNCHANGED <<mutex, tfstate>>

createLock(r) ==
  /\ op[r].kind = "create" /\ op[r].pc = "lock"
  /\ MutexFree(LockKey(op[r].d))
  /\ mutex' = MutexLock(LockKey(op[r].d))
  /\ op' = [op EXCEPT ![r] =
              [Log(op[r], "Lock", LockKey(op[r].d), 0, 0) EXCEPT !.pc = "probe"]]
  /\ UNCHANGED tfstate

createProbe(r) ==
  /\ op[r].kind = "create" /\ op[r].pc = "probe"
  /\ \/ createReturn(r, Log(op[r], "Probe", "", 0, 0),
                     "Error retrieving the server generation")
     \/ \E g \in BOOLEAN :
          createGoto(r, [Log(op[r], "Probe", "", 1, IF g THEN 1 ELSE 0)
                           EXCEPT !.gen17 = g], "storage")

createGetStorage(r) ==
  /\ op[r].kind = "create" /\ op[r].pc = "storage"
  /\ LET o == Log(op[r], "GetStorage", op[r].d.StorageControllerID, 0, 0) IN
     \/ createReturn(r, o, "Error when retreiving the Storage from the Redfish API")
     \/ \E found \in StorageAnswers[o.d.StorageControllerID], sys \in SystemIDs :
          IF found
          THEN createGoto(r, [o EXCEPT !.d.SystemID = sys], "applytime")
          ELSE createReturn(r, o, "Error when retreiving the Storage from the Redfish API")

createCheckApplyTime(r) ==
  /\ op[r].kind = "create" /\ op[r].pc = "applytime"
  /\ \E a \in ApplyTimeAnswers[op[r].d.SettingsApplyTime] :
       LET o == [Log(op[r], "ApplyTimes", "", 0, 0) EXCEPT !.supported = a.supported]
       IN IF a.err # ""
          THEN createReturn(r, o, "Error while checking support for settings_apply_time")
          ELSE createGoto(r, o, "drives")

createGetDrives(r) ==
  /\ op[r].kind = "create" /\ op[r].pc = "drives"
  /\ \/ createReturn(r, Log(op[r], "Drives", "", 0, 0),
                     "Error when getting the drives attached to controller")
     \/ \E a \in DrivesAnswers :
          LET o == Log(op[r], "Drives", "", 1, IF a.attached THEN 1 ELSE 0)
          IN IF a.err
             THEN createReturn(r, o, "Error when getting the drives")
             ELSE createGoto(r, o, "submit")

\* the values the schema admits for volume_type (deprecated) and raid_type
VolumeTypes ==
  {"NonRedundant", "Mirrored", "StripedWithParity", "SpannedMirrors",
   "SpannedStripesWithParity"}

RaidTypes == {"RAID0", "RAID1", "RAID5", "RAID6", "RAID10", "RAID50", "RAID60"}

volumeTypeMap ==
  [vt \in VolumeTypes |->
     CASE vt = "NonRedundant" -> "RAID0"
       [] vt = "Mirrored" -> "RAID1"
       [] vt = "StripedWithParity" -> "RAID5"
       [] vt = "SpannedMirrors" -> "RAID10"
       [] vt = "SpannedStripesWithParity" -> "RAID50"]

\* a variant of raidType in which a volume_type that is set wins over raid_type
raidTypePreferringVolumeType(d) ==
  IF d.VolumeType \in DOMAIN volumeTypeMap THEN volumeTypeMap[d.VolumeType]
  ELSE d.RaidType

\* the RAIDType of the payload of create: the value mapped from volume_type ("",
\* the zero value, for a volume_type the map does not hold), overridden by a
\* raid_type that is set
raidType(d) ==
  IF d.RaidType # "" THEN d.RaidType
  ELSE IF d.VolumeType \in DOMAIN volumeTypeMap THEN volumeTypeMap[d.VolumeType]
  ELSE ""

\* a variant of newVolumeDriveKeys that attaches the drives in both places
newVolumeDriveKeysBoth(isGenerationSeventeenAndAbove) == {"Links", "Drives"}

\* the keys of the newVolume payload that carry the list of drives: Links
\* (Links.Drives) for the 17th generation and above, otherwise Drives
newVolumeDriveKeys(isGenerationSeventeenAndAbove) ==
  IF isGenerationSeventeenAndAbove THEN {"Links"} ELSE {"Drives"}

\* a variant of createSubmit that sends the POST once more after a first failure
createSubmitRetry(r) ==
  /\ op[r].kind = "create" /\ op[r].pc = "submit"
  /\ \E res \in Responses :
       LET o == Answer(Log(Log(op[r], "Payload", raidType(op[r].d), 0, 0),
                             "POST", op[r].d.StorageControllerID,
                             IF "Links" \in newVolumeDriveKeys(op[r].gen17) THEN 1 ELSE 0,
                             IF "Drives" \in newVolumeDriveKeys(op[r].gen17) THEN 1 ELSE 0),
                         res)
           job == createVolume(res)
           posts == {i \in 1..Len(o.trace) : o.trace[i].ev = "POST"}
       IN IF job.err # "" /\ Cardinality(posts) < 2
          THEN createGoto(r, o, "submit")
          ELSE IF job.err # ""
          THEN createReturn(r, o, "Error when creating the virtual disk on disk controller")
          ELSE createGoto(r, [o EXCEPT !.jobID = job.jobID],
                          IF o.d.SettingsApplyTime = OnResetApplyTime
                          THEN "reset" ELSE "poll")

createSubmit(r) ==
  /\ op[r].kind = "create" /\ op[r].pc = "submit"
  /\ \E res \in Responses :
       LET o == Answer(Log(Log(op[r], "Payload", raidType(op[r].d), 0, 0),
                             "POST", op[r].d.StorageControllerID,
                             IF "Links" \in newVolumeDriveKeys(op[r].gen17) THEN 1 ELSE 0,
                             IF "Drives" \in newVolumeDriveKeys(op[r].gen17) THEN 1 ELSE 0),
                         res)
           job == createVolume(res)
       IN IF job.err # ""
          THEN createReturn(r, o, "Error when creating the virtual disk on disk controller")
          ELSE createGoto(r, [o EXCEPT !.jobID = job.jobID],
                          IF o.d.SettingsApplyTime = OnResetApplyTime
                          THEN "reset" ELSE "poll")

createReset(r) ==
  /\ op[r].kind = "create" /\ op[r].pc = "reset"
  /\ \E outcome \in PowerOutcomes :
       LET o == PowerOperation(op[r], op[r].d.ResetType, op[r].d.ResetTimeout,
                               intervalStorageVolumeJobCheckTime, outcome)
       IN IF outcome # "reached"
          THEN createReturn(r, o, "power operation failed")
          ELSE createGoto(r, o, "poll")

\* a variant of createPoll that goes on to the reconciliation whatever the job
\* outcome
createPollIgnoringJob(r) ==
  /\ op[r].kind = "create" /\ op[r].pc = "poll"
  /\ \E outcome \in JobOutcomes :
       LET o == WaitForTaskToFinish(op[r], op[r].jobID,
                                    intervalStorageVolumeJobCheckTime,
                                    op[r].d.VolumeJobTimeout, outcome)
       IN createGoto(r, Log(o, "Sleep", "", SettleDelay, 0), "reconcile")

\* a variant of createPoll that re-reads the volumes at once after the job
createPollNoSettle(r) ==
  /\ op[r].kind = "create" /\ op[r].pc = "poll"
  /\ \E outcome \in JobOutcomes :
       LET o == WaitForTaskToFinish(op[r], op[r].jobID,
                                    intervalStorageVolumeJobCheckTime,
                                    op[r].d.VolumeJobTimeout, outcome)
       IN IF outcome # "Succeeded"
          THEN createReturn(r, o, "job error")
          ELSE createGoto(r, o, "reconcile")

createPoll(r) ==
  /\ op[r].kind = "create" /\ op[r].pc = "poll"
  /\ \E outcome \in JobOutcomes :
       LET o == WaitForTaskToFinish(op[r], op[r].jobID,
                                    intervalStorageVolumeJobCheckTime,
                                    op[r].d.VolumeJobTimeout, outcome)
       IN IF outcome # "Succeeded"
          THEN createReturn(r, o, "job error")
          ELSE createGoto(r, Log(o, "Sleep", "", SettleDelay, 0), "reconcile")

createReconcile(r) ==
  /\ op[r].kind = "create" /\ op[r].pc = "reconcile"
  /\ \/ createReturn(r, Log(op[r], "Volumes", "", 0, 0), "there was an issue when retrieving volumes")
     \/ \E v \in VolumeIDAnswers[op[r].d.VolumeName] :
          LET o == Log(op[r], "Volumes", v.first, 1, IF v.named THEN 1 ELSE 0)
          IN IF v.err
             THEN createReturn(r, o, "Error. The volume ID with given volume name was not found")
             ELSE createReturn(r, [o EXCEPT !.d.ID = v.volumeLink], "")

createStep(r) ==
  \/ createLock(r)
  \/ createProbe(r)
  \/ createGetStorage(r)
  \/ createCheckApplyTime(r)
  \/ createGetDrives(r)
  \/ createSubmit(r)
  \/ createReset(r)
  \/ createPoll(r)
  \/ createReconcile(r)

\* a variant of Update without the check of the encryption
UpdateAnyEncryption(r, plan) ==
  /\ op[r].pc = "idle"
  /\ tfstate[r].present
  /\ \E ok \in BOOLEAN :
       op' = [op EXCEPT ![r] =
                IF ok
                THEN [Log(NewOp("update", plan, tfstate[r]), "NewConfig", plan.Endpoint, 0, 0)
                        EXCEPT !.pc = "lock"]
                ELSE [Log(NewOp("update", plan, tfstate[r]), "NewConfig", plan.Endpoint, 0, 0)
                        EXCEPT !.error = "service error"]]
  /\ UNCHANGED <<mutex, tfstate>>

\* -------------------------------------------------------------------- Update
\* Update, up to the call of updateRedfishStorageVolume: state and plan are read,
\* disabling encryption is refused, then the session is opened for the plan
Update(r, plan) ==
  /\ op[r].pc = "idle"
  /\ tfstate[r].present
  /\ \/ /\ ~plan.Encrypted /\ tfstate[r].d.Encrypted
        /\ op' = [op EXCEPT ![r] =
                    [NewOp("update", plan, tfstate[r]) EXCEPT !.error = "Invalid Configuration."]]
     \/ /\ ~(~plan.Encrypted /\ tfstate[r].d.Encrypted)
        /\ \E ok \in BOOLEAN :
             op' = [op EXCEPT ![r] =
                      IF ok
                      THEN [Log(NewOp("update", plan, tfstate[r]), "NewConfig", plan.Endpoint, 0, 0)
                              EXCEPT !.pc = "lock"]
                      ELSE [Log(NewOp("update", plan, tfstate[r]), "NewConfig", plan.Endpoint, 0, 0)
                              EXCEPT !.error = "service error"]]
  /\ UNCHANGED <<mutex, tfstate>>

\* a variant of updateReturn that saves the plan also after an error
updateReturnSaveAlways(r, o, err) ==
  /\ mutex' = MutexUnlock(LockKey(o.d))
  /\ op' = [op EXCEPT ![r] =
              [Log(o, "Unlock", LockKey(o.d), 0, 0)
                 EXCEPT !.pc = "idle", !.error = err]]
  /\ tfstate' = [tfstate EXCEPT ![r] = Stored(o.d)]

\* a variant of updateReturn without the deferred Unlock
updateReturnLeak(r, o, err) ==
  /\ op' = [op EXCEPT ![r] = [o EXCEPT !.pc = "idle", !.error = err]]
  /\ tfstate' = IF err # "" THEN tfstate
                ELSE [tfstate EXCEPT ![r] = Stored(o.d)]
  /\ UNCHANGED mutex

\* a return of updateRedfishStorageVolume with diagnostics err: the deferred
\* Unlock runs, then Update saves the plan unless there is an error
updateReturn(r, o, err) ==
  /\ mutex' = MutexUnlock(LockKey(o.d))
  /\ op' = [op EXCEPT ![r] =
              [Log(o, "Unlock", LockKey(o.d), 0, 0)
                 EXCEPT !.pc = "idle", !.error = err]]
  /\ tfstate' = IF err # "" THEN tfstate
                ELSE [tfstate EXCEPT ![r] = Stored(o.d)]

updateGoto(r, o, pc) ==
  /\ op' = [op EXCEPT ![r] = [o EXCEPT !.pc = pc]]
  /\ UNCHANGED <<mutex, tfstate>>

updateLock(r) ==
  /\ op[r].kind = "update" /\ op[r].pc = "lock"
  /\ MutexFree(LockKey(op[r].d))
  /\ mutex' = MutexLock(LockKey(op[r].d))
  /\ op' = [op EXCEPT ![r] =
              [Log(op[r], "Lock", LockKey(op[r].d), 0, 0) EXCEPT !.pc = "storage"]]
  /\ UNCHANGED tfstate

updateGetStorage(r) ==
  /\ op[r].kind = "update" /\ op[r].pc = "storage"
  /\ LET o == Log(op[r], "GetStorage", op[r].d.StorageControllerID, 0, 0) IN
     \/ updateReturn(r, o, "Error when retreiving storage details from the Redfish API")
     \/ \E found \in StorageAnswers[o.d.StorageControllerID], sys \in SystemIDs :
          IF found
          THEN updateGoto(r, [o EXCEPT !.d.SystemID = sys], "applytime")
          ELSE updateReturn(r, o, "Error when retreiving storage details from the Redfish API")

updateCheckApplyTime(r) ==
  /\ op[r].kind = "update" /\ op[r].pc = "applytime"
  /\ \E a \in ApplyTimeAnswers[op[r].d.SettingsApplyTime] :
       LET o == [Log(op[r], "ApplyTimes", "", 0, 0) EXCEPT !.supported = a.supported]
       IN IF a.err # ""
          THEN updateReturn(r, o, "Error while checking support for settings_apply_time")
          ELSE updateGoto(r, o, "submit")

\* the PATCH goes to the Settings of the volume the prior state names
updateSubmit(r) ==
  /\ op[r].kind = "update" /\ op[r].pc = "submit"
  /\ \E res \in Responses :
       LET o == Answer(Log(op[r], "PATCH", tfstate[r].d.ID, 0, 0), res)
           job == updateVolume(res)
       IN IF job.err # ""
          THEN updateReturn(r, o, "Error when updating the virtual disk on disk controller")
          ELSE updateGoto(r, [o EXCEPT !.jobID = job.jobID],
                          IF o.d.SettingsApplyTime = OnResetApplyTime
                          THEN "reset" ELSE "poll")

\* a variant of updateReset that passes the job timeout as the reset timeout
updateResetJobTimeout(r) ==
  /\ op[r].kind = "update" /\ op[r].pc = "reset"
  /\ \E outcome \in PowerOutcomes :
       LET o == PowerOperation(op[r], op[r].d.ResetType, op[r].d.VolumeJobTimeout,
                               intervalStorageVolumeJobCheckTime, outcome)
       IN IF outcome # "reached"
          THEN updateReturn(r, o, "power operation failed")
          ELSE updateGoto(r, o, "poll")

updateReset(r) ==
  /\ op[r].kind = "update" /\ op[r].pc = "reset"
  /\ \E outcome \in PowerOutcomes :
       LET o == PowerOperation(op[r], op[r].d.ResetType, op[r].d.ResetTimeout,
                               intervalStorageVolumeJobCheckTime, outcome)
       IN IF outcome # "reached"
          THEN updateReturn(r, o, "power operation failed")
          ELSE updateGoto(r, o, "poll")

\* a variant of updatePoll that polls a job reference other than the one its
\* PATCH returned
updatePollOtherJob(r) ==
  /\ op[r].kind = "update" /\ op[r].pc = "poll"
  /\ \E outcome \in JobOutcomes :
       LET o == WaitForTaskToFinish(op[r], "/jobs/JID_0",
                                    intervalStorageVolumeJobCheckTime,
                                    op[r].d.ResetTimeout, outcome)
       IN IF outcome # "Succeeded"
          THEN updateReturn(r, o, "job error")
          ELSE updateGoto(r, Log(o, "Sleep", "", SettleDelay, 0), "reconcile")

\* volumeJobTimeout is read from d.ResetTimeout
updatePoll(r) ==
  /\ op[r].kind = "update" /\ op[r].pc = "poll"
  /\ \E outcome \in JobOutcomes :
       LET o == WaitForTaskToFinish(op[r], op[r].jobID,
                                    intervalStorageVolumeJobCheckTime,
                                    op[r].d.ResetTimeout, outcome)
       IN IF outcome # "Succeeded"
          THEN updateReturn(r, o, "job error")
          ELSE updateGoto(r, Log(o, "Sleep", "", SettleDelay, 0), "reconcile")

updateReconcile(r) ==
  /\ op[r].kind = "update" /\ op[r].pc = "reconcile"
  /\ \/ updateReturn(r, Log(op[r], "Volumes", "", 0, 0), "Issue when retrieving volumes")
     \/ \E v \in VolumeIDAnswers[op[r].d.VolumeName] :
          LET o == Log(op[r], "Volumes", v.first, 1, IF v.named THEN 1 ELSE 0)
          IN IF v.err
             THEN updateReturn(r, o, "The volume ID with given volume name was not found")
             ELSE updateReturn(r, [o EXCEPT !.d.ID = v.volumeLink], "")

updateStep(r) ==
  \/ updateLock(r)
  \/ updateGetStorage(r)
  \/ updateCheckApplyTime(r)
  \/ updateSubmit(r)
  \/ updateReset(r)
  \/ updatePoll(r)
  \/ updateReconcile(r)

\* -------------------------------------------------------------------- Delete
\* Delete, up to the call of deleteRedfishStorageVolume
Delete(r) ==
  /\ op[r].pc = "idle"
  /\ tfstate[r].present
  /\ \E ok \in BOOLEAN :
       LET o == Log(NewOp("delete", tfstate[r].d, tfstate[r]), "NewConfig",
                    tfstate[r].d.Endpoint, 0, 0)
       IN op' = [op EXCEPT ![r] =
                   IF ok THEN [o EXCEPT !.pc = "lock"]
                   ELSE [o EXCEPT !.error = "service error"]]
  /\ UNCHANGED <<mutex, tfstate>>

\* a variant of deleteReturn that removes the resource also after an error
deleteReturnRemoveAlways(r, o, err) ==
  /\ mutex' = MutexUnlock(LockKey(o.d))
  /\ op' = [op EXCEPT ![r] =
              [Log(o, "Unlock", LockKey(o.d), 0, 0)
                 EXCEPT !.pc = "idle", !.error = err]]
  /\ tfstate' = [tfstate EXCEPT ![r] = NoState]

\* a return of deleteRedfishStorageVolume with diagnostics err: the deferred
\* Unlock runs, then Delete removes the resource unless there is an error
deleteReturn(r, o, err) ==
  /\ mutex' = MutexUnlock(LockKey(o.d))
  /\ op' = [op EXCEPT ![r] =
              [Log(o, "Unlock", LockKey(o.d), 0, 0)
                 EXCEPT !.pc = "idle", !.error = err]]
  /\ tfstate' = IF err # "" THEN tfstate
                ELSE [tfstate EXCEPT ![r] = NoState]

deleteGoto(r, o, pc) ==
  /\ op' = [op EXCEPT ![r] = [o EXCEPT !.pc = pc]]
  /\ UNCHANGED <<mutex, tfstate>>

\* a variant of deleteLock that does not wait for the key to be free
deleteLockSkipped(r) ==
  /\ op[r].kind = "delete" /\ op[r].pc = "lock"
  /\ mutex' = MutexLock(LockKey(op[r].d))
  /\ op' = [op EXCEPT ![r] =
              [Log(op[r], "Lock", LockKey(op[r].d), 0, 0) EXCEPT !.pc = "submit"]]
  /\ UNCHANGED tfstate

deleteLock(r) ==
  /\ op[r].kind = "delete" /\ op[r].pc = "lock"
  /\ MutexFree(LockKey(op[r].d))
  /\ mutex' = MutexLock(LockKey(op[r].d))
  /\ op' = [op EXCEPT ![r] =
              [Log(op[r], "Lock", LockKey(op[r].d), 0, 0) EXCEPT !.pc = "submit"]]
  /\ UNCHANGED tfstate

\* the DELETE is sent without asking the controller for its apply times; a is
\* what the controller would have answered
deleteSubmit(r) ==
  /\ op[r].kind = "delete" /\ op[r].pc = "submit"
  /\ \E res \in Responses, a \in ApplyTimeAnswers[op[r].d.SettingsApplyTime] :
       LET o == [Answer(Log(op[r], "DELETE", op[r].d.ID, 0, 0), res)
                   EXCEPT !.supported = a.supported]
           job == deleteVolume(res)
       IN IF job.err # ""
          THEN deleteReturn(r, o, "Error when deleting volume")
          ELSE deleteGoto(r, [o EXCEPT !.jobID = job.jobID],
                          IF o.d.SettingsApplyTime = OnResetApplyTime
                          THEN "reset" ELSE "poll")

\* a variant of deleteReset that ignores the error of the power operation
deleteResetIgnoringError(r) ==
  /\ op[r].kind = "delete" /\ op[r].pc = "reset"
  /\ \E outcome \in PowerOutcomes :
       deleteGoto(r, PowerOperation(Log(op[r], "Sleep", "", GraceDelay, 0),
                                    op[r].d.ResetType, op[r].d.ResetTimeout,
                                    intervalStorageVolumeJobCheckTime, outcome),
                  "poll")

\* a variant of deleteReset that resets the server without the grace delay
deleteResetNoGrace(r) ==
  /\ op[r].kind = "delete" /\ op[r].pc = "reset"
  /\ \E outcome \in PowerOutcomes :
       LET o == PowerOperation(op[r],
                               op[r].d.ResetType, op[r].d.ResetTimeout,
                               intervalStorageVolumeJobCheckTime, outcome)
       IN IF outcome # "reached"
          THEN deleteReturn(r, o, "power operation failed")
          ELSE deleteGoto(r, o, "poll")

deleteReset(r) ==
  /\ op[r].kind = "delete" /\ op[r].pc = "reset"
  /\ \E outcome \in PowerOutcomes :
       LET o == PowerOperation(Log(op[r], "Sleep", "", GraceDelay, 0),
                               op[r].d.ResetType, op[r].d.ResetTimeout,
                               intervalStorageVolumeJobCheckTime, outcome)
       IN IF outcome # "reached"
          THEN deleteReturn(r, o, "power operation failed")
          ELSE deleteGoto(r, o, "poll")

\* a variant of deletePoll that sends a cancelling DELETE for the job after a
\* failed wait
deletePollCancelling(r) ==
  /\ op[r].kind = "delete" /\ op[r].pc = "poll"
  /\ \E outcome \in JobOutcomes :
       LET o == WaitForTaskToFinish(op[r], op[r].jobID,
                                    intervalStorageVolumeJobCheckTime,
                                    op[r].d.VolumeJobTimeout, outcome)
       IN IF outcome # "Succeeded"
          THEN deleteReturn(r, Log(o, "DELETE", o.jobID, 0, 0),
                            "Timeout reached when waiting for job to finish")
          ELSE deleteReturn(r, o, "")

\* a variant of deletePoll that takes only a failed job for an error
deletePollToleratingTimeout(r) ==
  /\ op[r].kind = "delete" /\ op[r].pc = "poll"
  /\ \E outcome \in JobOutcomes :
       LET o == WaitForTaskToFinish(op[r], op[r].jobID,
                                    intervalStorageVolumeJobCheckTime,
                                    op[r].d.VolumeJobTimeout, outcome)
       IN IF outcome = "Failed"
          THEN deleteReturn(r, o, "Timeout reached when waiting for job to finish")
          ELSE deleteReturn(r, o, "")

deletePoll(r) ==
  /\ op[r].kind = "delete" /\ op[r].pc = "poll"
  /\ \E outcome \in JobOutcomes :
       LET o == WaitForTaskToFinish(op[r], op[r].jobID,
                                    intervalStorageVolumeJobCheckTime,
                                    op[r].d.VolumeJobTimeout, outcome)
       IN IF outcome # "Succeeded"
          THEN deleteReturn(r, o, "Timeout reached when waiting for job to finish")
          ELSE deleteReturn(r, o, "")

deleteStep(r) ==
  \/ deleteLock(r)
  \/ deleteSubmit(r)
  \/ deleteReset(r)
  \/ deletePoll(r)

\* ---------------------------------------------------------------------- Read
\* Read, up to the call of readRedfishStorageVolume
Read(r) ==
  /\ op[r].pc = "idle"
  /\ tfstate[r].present
  /\ \E ok \in BOOLEAN :
       LET o == Log(NewOp("read", tfstate[r].d, tfstate[r]), "NewConfig",
                    tfstate[r].d.Endpoint, 0, 0)
       IN op' = [op EXCEPT ![r] =
                   IF ok THEN [o EXCEPT !.pc = "fetch"]
                   ELSE [o EXCEPT !.error = "service error"]]
  /\ UNCHANGED <<mutex, tfstate>>

\* what the controller reports of a volume besides its name and ODataID: the
\* values as configured, or other values (a volume changed out of band or in
\* transition)
ReportedAttributes ==
  { [CapacityBytes |-> 1000000000, OptimumIOSizeBytes |-> 65536,
     ReadCachePolicy |-> "ReadAhead", WriteCachePolicy |-> "WriteThrough",
     VolumeType |-> "Mirrored", Drives |-> <<"Disk.0", "Disk.1">>,
     Encrypted |-> TRUE, RAIDType |-> "RAID1"],
    [CapacityBytes |-> 2000000000, OptimumIOSizeBytes |-> 131072,
     ReadCachePolicy |-> "Off", WriteCachePolicy |-> "UnprotectedWriteBack",
     VolumeType |-> "NonRedundant", Drives |-> <<"Disk.1">>,
     Encrypted |-> FALSE, RAIDType |-> "RAID0"] }

NothingReported ==
  [CapacityBytes |-> 0, OptimumIOSizeBytes |-> 0, ReadCachePolicy |-> "",
   WriteCachePolicy |-> "", VolumeType |-> "", Drives |-> << >>,
   Encrypted |-> FALSE, RAIDType |-> ""]

\* the answers to GetVolume: a transport error, a Redfish error with its HTTP
\* status, or the volume
ReadAnswers ==
  [err : {"transport"}, status : {0}, Name : {""}, ODataID : {""},
   reported : {NothingReported}]
    \cup [err : {"redfish"}, status : {StatusNotFound, 400},
          Name : {""}, ODataID : {""}, reported : {NothingReported}]
    \cup [err : {""}, status : {200}, Name : VolumeNames, ODataID : VolumeIDs,
          reported : ReportedAttributes]

\* a variant of readRedfishStorageVolume that asks for the cleanup after every
\* Redfish error, whatever its status
readRedfishStorageVolumeAnyStatus(d, res) ==
  IF res.err = "transport"
  THEN [diags |-> "There was an error with the API", cleanup |-> FALSE, d |-> d]
  ELSE IF res.err = "redfish"
  THEN [diags |-> "Volume doesn't exist", cleanup |-> TRUE, d |-> d]
  ELSE [diags |-> "", cleanup |-> FALSE,
        d |-> [d EXCEPT !.CapacityBytes = res.reported.CapacityBytes,
                        !.ID = res.ODataID,
                        !.OptimumIoSizeBytes = res.reported.OptimumIOSizeBytes,
                        !.ReadCachePolicy = res.reported.ReadCachePolicy,
                        !.VolumeName = res.Name,
                        !.VolumeType = res.reported.VolumeType,
                        !.WriteCachePolicy = res.reported.WriteCachePolicy,
                        !.Drives = res.reported.Drives]]

\* a variant of readRedfishStorageVolume that also refreshes encrypted from the
\* controller's report
readRedfishStorageVolumeRefreshingEncrypted(d, res) ==
  IF res.err = "transport"
  THEN [diags |-> "There was an error with the API", cleanup |-> FALSE, d |-> d]
  ELSE IF res.err = "redfish" /\ res.status = StatusNotFound
  THEN [diags |-> "Volume doesn't exist", cleanup |-> TRUE, d |-> d]
  ELSE IF res.err = "redfish"
  THEN [diags |-> "Status code", cleanup |-> FALSE, d |-> d]
  ELSE [diags |-> "", cleanup |-> FALSE,
        d |-> [d EXCEPT !.CapacityBytes = res.reported.CapacityBytes,
                        !.ID = res.ODataID,
                        !.OptimumIoSizeBytes = res.reported.OptimumIOSizeBytes,
                        !.ReadCachePolicy = res.reported.ReadCachePolicy,
                        !.VolumeName = res.Name,
                        !.VolumeType = res.reported.VolumeType,
                        !.WriteCachePolicy = res.reported.WriteCachePolicy,
                        !.Drives = res.reported.Drives,
                        !.Encrypted = res.reported.Encrypted]]

\* a variant of readRedfishStorageVolume that also refreshes raid_type from the
\* controller's report
readRedfishStorageVolumeRefreshingRaidType(d, res) ==
  IF res.err = "transport"
  THEN [diags |-> "There was an error with the API", cleanup |-> FALSE, d |-> d]
  ELSE IF res.err = "redfish" /\ res.status = StatusNotFound
  THEN [diags |-> "Volume doesn't exist", cleanup |-> TRUE, d |-> d]
  ELSE IF res.err = "redfish"
  THEN [diags |-> "Status code", cleanup |-> FALSE, d |-> d]
  ELSE [diags |-> "", cleanup |-> FALSE,
        d |-> [d EXCEPT !.CapacityBytes = res.reported.CapacityBytes,
                        !.ID = res.ODataID,
                        !.OptimumIoSizeBytes = res.reported.OptimumIOSizeBytes,
                        !.ReadCachePolicy = res.reported.ReadCachePolicy,
                        !.VolumeName = res.Name,
                        !.VolumeType = res.reported.VolumeType,
                        !.WriteCachePolicy = res.reported.WriteCachePolicy,
                        !.Drives = res.reported.Drives,
                        !.RaidType = res.reported.RAIDType]]

\* readRedfishStorageVolume on the answer res to GetVolume: the diagnostics, the
\* cleanup flag and the model d after the call
readRedfishStorageVolume(d, res) ==
  IF res.err = "transport"
  THEN [diags |-> "There was an error with the API", cleanup |-> FALSE, d |-> d]
  ELSE IF res.err = "redfish" /\ res.status = StatusNotFound
  THEN [diags |-> "Volume doesn't exist", cleanup |-> TRUE, d |-> d]
  ELSE IF res.err = "redfish"
  THEN [diags |-> "Status code", cleanup |-> FALSE, d |-> d]
  ELSE [diags |-> "", cleanup |-> FALSE,
        d |-> [d EXCEPT !.CapacityBytes = res.reported.CapacityBytes,
                        !.ID = res.ODataID,
                        !.OptimumIoSizeBytes = res.reported.OptimumIOSizeBytes,
                        !.ReadCachePolicy = res.reported.ReadCachePolicy,
                        !.VolumeName = res.Name,
                        !.VolumeType = res.reported.VolumeType,
                        !.WriteCachePolicy = res.reported.WriteCachePolicy,
                        !.Drives = res.reported.Drives]]

\* a variant of ReadFetch that fetches only under the endpoint lock
ReadFetchLocked(r) ==
  /\ op[r].kind = "read" /\ op[r].pc = "fetch"
  /\ MutexFree(LockKey(op[r].d))
  /\ \E res \in ReadAnswers :
       LET o == [Log(op[r], "GetVolume", op[r].d.ID, res.status,
                     IF res.err = "" THEN 0 ELSE 1) EXCEPT !.pc = "idle"]
           got == readRedfishStorageVolume(o.d, res)
       IN IF got.cleanup
          THEN /\ op' = [op EXCEPT ![r] = o]
               /\ tfstate' = [tfstate EXCEPT ![r] = NoState]
          ELSE IF got.diags # ""
          THEN /\ op' = [op EXCEPT ![r] = [o EXCEPT !.error = got.diags]]
               /\ UNCHANGED tfstate
          ELSE /\ op' = [op EXCEPT ![r] = [o EXCEPT !.d = got.d]]
               /\ tfstate' = [tfstate EXCEPT ![r] = Stored(got.d)]
  /\ UNCHANGED mutex

\* the rest of Read: the volume is fetched with no lock taken; on cleanup the
\* resource is removed and Read returns before the diagnostics are appended;
\* otherwise an error is reported, or the refreshed state is saved
ReadFetch(r) ==
  /\ op[r].kind = "read" /\ op[r].pc = "fetch"
  /\ \E res \in ReadAnswers :
       LET o == [Log(op[r], "GetVolume", op[r].d.ID, res.status,
                     IF res.err = "" THEN 0 ELSE 1) EXCEPT !.pc = "idle"]
           got == readRedfishStorageVolume(o.d, res)
       IN IF got.cleanup
          THEN /\ op' = [op EXCEPT ![r] = o]
               /\ tfstate' = [tfstate EXCEPT ![r] = NoState]
          ELSE IF got.diags # ""
          THEN /\ op' = [op EXCEPT ![r] = [o EXCEPT !.error = got.diags]]
               /\ UNCHANGED tfstate
          ELSE /\ op' = [op EXCEPT ![r] = [o EXCEPT !.d = got.d]]
               /\ tfstate' = [tfstate EXCEPT ![r] = Stored(got.d)]
  /\ UNCHANGED mutex

\* the import IDs a user may pass: a text that is not JSON, or a JSON object
\* with the keys of creds
ImportIDs ==
  [json : {FALSE}, text : {"", "vol-1"}, endpoint : {""}, id : {""}, system_id : {""}]
    \cup [json : {TRUE}, text : {""}, endpoint : {"bmcA"}, id : VolumeIDs,
          system_id : SystemIDs]

\* json.Unmarshal of the import ID into creds: a text that is not JSON leaves
\* creds at its zero value and returns an error
Unmarshal(id) ==
  IF id.json
  THEN [err |-> "", Endpoint |-> id.endpoint, Id |-> id.id, SystemID |-> id.system_id]
  ELSE [err |-> "Error while unmarshalling id", Endpoint |-> "", Id |-> "", SystemID |-> ""]

\* the attributes ImportState sets, in its order
ImportedAttributes ==
  << "reset_timeout", "reset_type", "volume_job_timeout", "settings_apply_time",
     "id", "redfish_server", "system_id" >>

RECURSIVE SetAttributes(_, _)
SetAttributes(o, attrs) ==
  IF attrs = << >> THEN o
  ELSE SetAttributes(Log(o, "SetAttribute", Head(attrs), 0, 0), Tail(attrs))

\* ImportState: the ID is unmarshalled, an error only joins the diagnostics, and
\* the seven attributes are set on the response state from creds and the
\* defaults. op[r].d is the response state as ImportState left it; Terraform
\* keeps the state of an import only when no error was reported.
ImportState(r, id) ==
  /\ op[r].pc = "idle"
  /\ ~tfstate[r].present
  /\ LET c == Unmarshal(id)
         written == [Volume(c.Endpoint, c.Id, ImmediateApplyTime, "ForceRestart",
                            defaultStorageVolumeResetTimeout,
                            defaultStorageVolumeJobTimeout, c.SystemID, FALSE)
                       EXCEPT !.StorageControllerID = "", !.VolumeName = "",
                              !.CapacityBytes = 0, !.OptimumIoSizeBytes = 0,
                              !.ReadCachePolicy = "", !.WriteCachePolicy = "",
                              !.VolumeType = "", !.Drives = << >>,
                              !.DiskCachePolicy = "", !.RaidType = ""]
         o == SetAttributes(Log(NewOp("import", written, tfstate[r]), "Unmarshal",
                                id.text, 0, IF c.err = "" THEN 0 ELSE 1),
                            ImportedAttributes)
     IN /\ op' = [op EXCEPT ![r] = [o EXCEPT !.error = c.err]]
        /\ tfstate' = IF c.err # "" THEN tfstate
                      ELSE [tfstate EXCEPT ![r] = Stored(written)]
  /\ UNCHANGED mutex

Fresh(r) == op[r].kind = "none"

\* two resources, each running one lifecycle operation, concurrently
Next ==
  \E r \in Resources :
    \/ \E plan \in ConcPlans : Fresh(r) /\ Create(r, plan)
    \/ \E plan \in ConcPlans : Fresh(r) /\ Update(r, plan)
    \/ Fresh(r) /\ Delete(r)
    \/ Fresh(r) /\ Read(r)
    \/ createStep(r)
    \/ updateStep(r)
    \/ deleteStep(r)
    \/ ReadFetch(r)

Spec == Init /\ [][Next]_vars

\* ----------------------------------------------------- the job poller's loop
\* what one fetch of the task can yield: the task still running, a transport
\* error, or a terminal status
TaskStatuses == {"running", "transport", "succeeded", "failed"}

\* the maximum wait and interval the operation r hands to the poller
PollerMaxWait(r) ==
  IF op[r].kind = "update" THEN op[r].d.ResetTimeout ELSE op[r].d.VolumeJobTimeout

PollerRunning(r) ==
  /\ op[r].kind \in {"create", "update", "delete"} /\ op[r].pc = "poll"
  /\ op[r].poller.result = ""

\* a variant of PollerFetch that keeps fetching after the maximum wait
PollerFetchPastDeadline(r) ==
  /\ PollerRunning(r)
  /\ \E status \in TaskStatuses :
       op' = [op EXCEPT ![r].poller =
                [polls |-> @.polls + 1,
                 elapsed |-> @.elapsed + intervalStorageVolumeJobCheckTime,
                 last |-> status,
                 seen |-> @.seen \cup {status},
                 result |-> IF status = "succeeded" THEN "Succeeded"
                            ELSE IF status = "failed" THEN "Failed"
                            ELSE ""]]
  /\ UNCHANGED <<mutex, tfstate>>

\* one more interval passes and the task is fetched, when the fetch is due no
\* later than the maximum wait: a terminal status ends the loop, a transport
\* error or a running task does not
PollerFetch(r) ==
  /\ PollerRunning(r)
  /\ op[r].poller.elapsed + intervalStorageVolumeJobCheckTime <= PollerMaxWait(r)
  /\ \E status \in TaskStatuses :
       op' = [op EXCEPT ![r].poller =
                [polls |-> @.polls + 1,
                 elapsed |-> @.elapsed + intervalStorageVolumeJobCheckTime,
                 last |-> status,
                 seen |-> @.seen \cup {status},
                 result |-> IF status = "succeeded" THEN "Succeeded"
                            ELSE IF status = "failed" THEN "Failed"
                            ELSE ""]]
  /\ UNCHANGED <<mutex, tfstate>>

\* the maximum wait elapses before the next fetch (or together with it): the
\* loop ends with TimedOut
PollerTimeout(r) ==
  /\ PollerRunning(r)
  /\ op[r].poller.elapsed + intervalStorageVolumeJobCheckTime >= PollerMaxWait(r)
  /\ op' = [op EXCEPT ![r].poller.elapsed = PollerMaxWait(r),
                      ![r].poller.result = "TimedOut"]
  /\ UNCHANGED <<mutex, tfstate>>

\* the operation goes on with the result of the loop
PollerReturn(r) ==
  /\ op[r].poller.result # ""
  /\ createPoll(r) \/ updatePoll(r) \/ deletePoll(r)
  /\ \E j \in 1..Len(op'[r].trace) :
       /\ op'[r].trace[j].ev = "Job"
       /\ op'[r].trace[j].key = op[r].poller.result

\* the plans of the poller's specification: short job timeouts, one of them a
\* multiple of the interval
PollerPlans ==
  { Volume("bmcA", "", ImmediateApplyTime, "ForceRestart", rto, jto, "", FALSE) :
      rto \in {20, 35}, jto \in {25, 30} }

InitPoller ==
  /\ mutex = {}
  /\ tfstate \in [Resources -> {NoState} \cup
                    { Stored([p EXCEPT !.ID = "/Volumes/V0",
                                       !.SystemID = "System.Embedded.1"]) :
                        p \in PollerPlans }]
  /\ op = [r \in Resources |-> NoOp]

\* one resource running one create, update or delete, the wait for the job
\* taken fetch by fetch
NextPoller ==
  \E r \in {"vol1"} :
    \/ \E plan \in PollerPlans : Fresh(r) /\ Create(r, plan)
    \/ \E plan \in PollerPlans : Fresh(r) /\ Update(r, plan)
    \/ Fresh(r) /\ Delete(r)
    \/ createLock(r) \/ createProbe(r) \/ createGetStorage(r)
    \/ createCheckApplyTime(r) \/ createGetDrives(r) \/ createSubmit(r)
    \/ createReconcile(r)
    \/ updateLock(r) \/ updateGetStorage(r) \/ updateCheckApplyTime(r)
    \/ updateSubmit(r) \/ updateReconcile(r)
    \/ deleteLock(r) \/ deleteSubmit(r)
    \/ PollerFetch(r)
    \/ PollerTimeout(r)
    \/ PollerReturn(r)

SpecPoller == InitPoller /\ [][NextPoller]_vars

\* r acquires the lock of its endpoint
Acquire(r) == createLock(r) \/ updateLock(r) \/ deleteLock(r)

\* r takes a step that waits for no lock: a remote call that returns, a wait
\* that ends
Proceed(r) ==
  \/ createProbe(r) \/ createGetStorage(r) \/ createCheckApplyTime(r)
  \/ createGetDrives(r) \/ createSubmit(r) \/ createReset(r) \/ createPoll(r)
  \/ createReconcile(r)
  \/ updateGetStorage(r) \/ updateCheckApplyTime(r) \/ updateSubmit(r)
  \/ updateReset(r) \/ updatePoll(r) \/ updateReconcile(r)
  \/ deleteSubmit(r) \/ deleteReset(r) \/ deletePoll(r)

\* the plans of the fair specification: one endpoint, so that the two
\* resources contend for its lock
FairPlans == {p \in ConcPlans : p.Endpoint = "bmcA"}

InitFair ==
  /\ mutex = {}
  /\ tfstate \in [Resources -> {NoState} \cup
                    { Stored([p EXCEPT !.ID = "/Volumes/V0",
                                       !.SystemID = "System.Embedded.1"]) :
                        p \in FairPlans }]
  /\ op = [r \in Resources |-> NoOp]

\* two resources of one endpoint, each running one create, update or delete
NextFair ==
  \E r \in Resources :
    \/ \E plan \in FairPlans : Fresh(r) /\ Create(r, plan)
    \/ \E plan \in FairPlans : Fresh(r) /\ Update(r, plan)
    \/ Fresh(r) /\ Delete(r)
    \/ Acquire(r)
    \/ Proceed(r)

\* every remote call returns and every bounded wait ends (weak fairness of the
\* steps), and the lock is not starving (strong fairness of its acquisition)
SpecFair ==
  /\ InitFair /\ [][NextFair]_vars
  /\ \A r \in Resources : WF_vars(Proceed(r)) /\ SF_vars(Acquire(r))

\* one resource, running one lifecycle operation after the other
InitLifecycle ==
  /\ mutex = {}
  /\ tfstate = [r \in Resources |-> NoState]
  /\ op = [r \in Resources |-> NoOp]

NextLifecycle ==
  \E r \in {"vol1"} :
    \/ \E plan \in FullPlans : Create(r, plan)
    \/ \E plan \in FullPlans : Update(r, plan)
    \/ Delete(r)
    \/ Read(r)
    \/ createStep(r)
    \/ updateStep(r)
    \/ deleteStep(r)
    \/ ReadFetch(r)
    \/ \E id \in ImportIDs : ImportState(r, id)

SpecLifecycle == InitLifecycle /\ [][NextLifecycle]_vars

\* the plans of the specification of the RAID type: every raid_type of the
\* schema (it defaults to RAID0, so a plan never has it empty), with every
\* volume_type or none
RaidPlans ==
  { [Volume("bmcA", "", at, "ForceRestart", defaultStorageVolumeResetTimeout,
            defaultStorageVolumeJobTimeout, "", FALSE)
       EXCEPT !.VolumeType = vt, !.RaidType = rt] :
      at \in ApplyTimes, vt \in VolumeTypes \cup {""}, rt \in RaidTypes }

\* one resource running one create
NextRaid ==
  \E r \in {"vol1"} :
    \/ \E plan \in RaidPlans : Fresh(r) /\ Create(r, plan)
    \/ createStep(r)

SpecRaid == InitLifecycle /\ [][NextRaid]_vars

\* ===================================================================== claims
Mutating == {"create", "update", "delete"}

\* r is inside its guarded sequence: past the Lock, not yet returned
Guarded(r) == op[r].kind \in Mutating /\ op[r].pc \notin {"idle", "lock"}

Events(r, e) == {i \in 1..Len(op[r].trace) : op[r].trace[i].ev = e}
Has(r, e) == Events(r, e) # {}
EventOf(r, e) == op[r].trace[CHOOSE i \in Events(r, e) : TRUE]

\* r has returned from the operation it ran last
Finished(r) == op[r].kind # "none" /\ op[r].pc = "idle"

Submissions(r) == Events(r, "POST") \cup Events(r, "PATCH") \cup Events(r, "DELETE")

\* C1: two create, update or delete operations on the same endpoint are never
\* both inside their guarded sequences (past the Lock and not yet returned).
C1_SameEndpointSerialized ==
  \A p, q \in Resources :
    (p # q /\ Guarded(p) /\ Guarded(q)) => op[p].d.Endpoint # op[q].d.Endpoint

\* C1 witness: one operation is inside its guarded sequence, having sent its
\* mutating request, while another on the same endpoint waits at its Lock.
C1_Witness ==
  \E p, q \in Resources :
    /\ p # q /\ Guarded(p) /\ Submissions(p) # {}
    /\ op[q].kind \in Mutating /\ op[q].pc = "lock"
    /\ op[p].d.Endpoint = op[q].d.Endpoint

\* C2 as stated: whenever a read performs its remote fetch, no create, update or
\* delete on the same endpoint is inside its guarded sequence.
C2_ReadSerialized ==
  [][\A r \in Resources :
       (op[r].kind = "read" /\ op[r].pc = "fetch" /\ op'[r].pc = "idle")
         => ~\E q \in Resources :
               q # r /\ Guarded(q) /\ op[q].d.Endpoint = op[r].d.Endpoint]_vars

\* C2 amended: a read takes no endpoint lock: it performs no Lock, and its
\* remote fetch can execute in every state, also while a create, update or
\* delete on the same endpoint is inside its guarded sequence.
C2_ReadTakesNoLock ==
  \A r \in Resources :
    op[r].kind = "read" =>
      /\ ~Has(r, "Lock") /\ ~Has(r, "Unlock")
      /\ op[r].pc = "fetch" => ENABLED ReadFetch(r)

\* C2 witness: a read is about to fetch while a mutating operation on the same
\* endpoint is inside its guarded sequence.
C2_Witness ==
  \E r, q \in Resources :
    /\ op[r].kind = "read" /\ op[r].pc = "fetch"
    /\ q # r /\ Guarded(q) /\ op[q].d.Endpoint = op[r].d.Endpoint

\* C3: an operation waiting at its Lock can acquire it whenever no other
\* operation on the same endpoint is inside its guarded sequence, whatever is
\* held for other endpoints.
C3_DistinctEndpointsNeverContend ==
  \A r \in Resources :
    (/\ op[r].kind \in Mutating /\ op[r].pc = "lock"
     /\ ~\E q \in Resources :
           q # r /\ Guarded(q) /\ op[q].d.Endpoint = op[r].d.Endpoint)
      => ENABLED (createLock(r) \/ updateLock(r) \/ deleteLock(r))

\* C3 witness: two operations on different endpoints are inside their guarded
\* sequences at the same time, both having sent their mutating request.
C3_Witness ==
  \E p, q \in Resources :
    /\ op[p].d.Endpoint # op[q].d.Endpoint
    /\ Guarded(p) /\ Guarded(q)
    /\ Submissions(p) # {} /\ Submissions(q) # {}

\* C4: a create, update or delete that returned after acquiring the lock ends
\* with an Unlock of the key it locked, whatever the exit; and every locked key
\* is the key some operation still inside its guarded sequence acquired.
C4_LockReleasedOnEveryExit ==
  /\ \A r \in Resources :
       (Finished(r) /\ Has(r, "Lock")) =>
         /\ op[r].trace[Len(op[r].trace)].ev = "Unlock"
         /\ op[r].trace[Len(op[r].trace)].key = EventOf(r, "Lock").key
         /\ Cardinality(Events(r, "Unlock")) = 1
  /\ \A k \in mutex :
       \E r \in Resources : Guarded(r) /\ EventOf(r, "Lock").key = k
  /\ \A r \in Resources : Guarded(r) => EventOf(r, "Lock").key \in mutex

\* C4 witness: an operation returned with an error after its submission was
\* accepted, and its key is no longer locked.
C4_Witness ==
  \E r \in Resources :
    /\ Finished(r) /\ Has(r, "Lock") /\ op[r].error # "" /\ op[r].jobID # ""
    /\ EventOf(r, "Lock").key \notin mutex

\* C5: in create and update, unless the controller advertises the requested
\* apply time (it does not, or its values cannot be retrieved), the operation
\* has failed at the check with no mutating request, no reset and no job poll;
\* and nothing of these happens before the check has passed.
C5_UnsupportedApplyTimeFailsBeforeSubmission ==
  \A r \in Resources :
    op[r].kind \in {"create", "update"} =>
      /\ (Has(r, "ApplyTimes") /\ op[r].supported # "yes") =>
           /\ Finished(r) /\ op[r].error # ""
           /\ Submissions(r) = {} /\ ~Has(r, "Reset") /\ ~Has(r, "Poll")
      /\ (Submissions(r) # {} \/ Has(r, "Reset") \/ Has(r, "Poll")) =>
           op[r].supported = "yes"

\* C5 witness: a create that requested OnReset from a controller not advertising
\* it has returned with an error.
C5_Witness ==
  \E r \in Resources :
    /\ op[r].kind = "create" /\ Finished(r) /\ op[r].error # ""
    /\ op[r].d.SettingsApplyTime = OnResetApplyTime
    /\ Has(r, "ApplyTimes") /\ op[r].supported = "no"

\* C6 as stated: every create, update or delete that has sent its mutating
\* request asked the controller for its apply times before sending it, and the
\* controller advertises the apply time of the operation.
C6_SubmissionOnlyWithAdvertisedApplyTime ==
  \A r \in Resources :
    (op[r].kind \in Mutating /\ Submissions(r) # {}) =>
      /\ \E i \in Events(r, "ApplyTimes") : \A j \in Submissions(r) : i < j
      /\ op[r].supported = "yes"

\* C7: the job reference of an operation is the Location of a 202 answer with a
\* non-empty Location; after a transport error, another status or an empty
\* Location the operation has failed with no job reference, no reset and no poll.
C7_JobHandleOnlyFromAccepted ==
  \A r \in Resources :
    op[r].kind \in Mutating =>
      IF Has(r, "Answer")
      THEN LET a == EventOf(r, "Answer")
               accepted == a.m = 0 /\ a.n = StatusAccepted /\ a.key # ""
           IN /\ accepted => op[r].jobID = a.key
              /\ ~accepted =>
                   /\ op[r].jobID = "" /\ Finished(r) /\ op[r].error # ""
                   /\ ~Has(r, "Reset") /\ ~Has(r, "Poll")
      ELSE op[r].jobID = "" /\ ~Has(r, "Reset") /\ ~Has(r, "Poll")

\* C7 witness: a delete was answered 202 with an empty Location and has failed.
C7_Witness ==
  \E r \in Resources :
    /\ op[r].kind = "delete" /\ Finished(r) /\ op[r].error # ""
    /\ Has(r, "Answer")
    /\ EventOf(r, "Answer").n = StatusAccepted
    /\ EventOf(r, "Answer").m = 0
    /\ EventOf(r, "Answer").key = ""

PreconditionErrors ==
  { "Error retrieving the server generation",
    "Error when retreiving the Storage from the Redfish API",
    "Error when retreiving storage details from the Redfish API",
    "Error while checking support for settings_apply_time",
    "Error when getting the drives attached to controller",
    "Error when getting the drives" }

\* C8: an operation sends at most one mutating request (POST, PATCH or DELETE),
\* none until its preconditions passed, and exactly one once they have.
C8_OneMutatingRequest ==
  \A r \in Resources :
    op[r].kind \in Mutating =>
      /\ Cardinality(Submissions(r)) <= 1
      /\ op[r].pc \in {"lock", "probe", "storage", "applytime", "drives", "submit"}
           => Submissions(r) = {}
      /\ op[r].pc \in {"reset", "poll", "reconcile"}
           => Cardinality(Submissions(r)) = 1
      /\ (Finished(r) /\ Has(r, "Lock")) =>
           Cardinality(Submissions(r)) =
             (IF op[r].error \in PreconditionErrors THEN 0 ELSE 1)

\* C8 witness: a create whose POST failed has returned, having sent one POST.
C8_Witness ==
  \E r \in Resources :
    /\ op[r].kind = "create" /\ Finished(r)
    /\ op[r].error = "Error when creating the virtual disk on disk controller"
    /\ Cardinality(Events(r, "POST")) = 1

\* C9: a reset is issued only with apply time OnReset and an accepted
\* submission, at most once, with the configured reset type and reset timeout;
\* and once such an operation is past its reset stage, exactly one was issued.
C9_ResetIffOnReset ==
  \A r \in Resources :
    op[r].kind \in Mutating =>
      /\ Cardinality(Events(r, "Reset")) <= 1
      /\ Has(r, "Reset") =>
           /\ op[r].d.SettingsApplyTime = OnResetApplyTime
           /\ op[r].jobID # ""
           /\ EventOf(r, "Reset").key = op[r].d.ResetType
           /\ EventOf(r, "Reset").n = op[r].d.ResetTimeout
      /\ op[r].d.SettingsApplyTime = ImmediateApplyTime => ~Has(r, "Reset")
      /\ (op[r].d.SettingsApplyTime = OnResetApplyTime /\ op[r].jobID # ""
            /\ op[r].pc # "reset") => Cardinality(Events(r, "Reset")) = 1

\* C9 witness: an update with OnReset, reset type PowerCycle and a reset timeout
\* other than the default succeeded after its reset.
C9_Witness ==
  \E r \in Resources :
    /\ op[r].kind = "update" /\ Finished(r) /\ op[r].error = ""
    /\ op[r].d.SettingsApplyTime = OnResetApplyTime
    /\ op[r].d.ResetType = "PowerCycle"
    /\ op[r].d.ResetTimeout # defaultStorageVolumeResetTimeout
    /\ Has(r, "Reset")

\* C10: after a failed power operation (reset rejected, or power state not
\* reached in time) the operation has returned an error, with no job poll, no
\* re-read of the volumes, and the stored state as it was before the operation.
C10_PowerFailureFailsOperation ==
  \A r \in Resources :
    (op[r].kind \in Mutating /\ Has(r, "Power")
       /\ EventOf(r, "Power").key # "reached") =>
      /\ Finished(r) /\ op[r].error # ""
      /\ ~Has(r, "Poll") /\ ~Has(r, "Job") /\ ~Has(r, "Volumes")
      /\ tfstate[r] = op[r].prior

\* C10 witness: a delete whose power operation timed out has failed and the
\* resource is still in the state.
C10_Witness ==
  \E r \in Resources :
    /\ op[r].kind = "delete" /\ Finished(r) /\ op[r].error # ""
    /\ Has(r, "Power") /\ EventOf(r, "Power").key = "timeout"
    /\ tfstate[r].present

\* C11: in a delete with apply time OnReset the order is: deletion request
\* answered, grace delay of 30 seconds, reset, job poll. A reset is always
\* preceded by the grace delay, which follows the answer to the deletion
\* request; the job is polled only after the reset.
C11_DeleteGraceBeforeReset ==
  \A r \in Resources :
    op[r].kind = "delete" =>
      /\ \A k \in Events(r, "Reset") :
           \E i \in Events(r, "DELETE"), a \in Events(r, "Answer"),
              s \in Events(r, "Sleep") :
             /\ op[r].trace[s].n = GraceDelay
             /\ i < a /\ a < s /\ s < k
      /\ (op[r].d.SettingsApplyTime = OnResetApplyTime) =>
           \A p \in Events(r, "Poll") : \E k \in Events(r, "Reset") : k < p

\* C11 witness: a delete with OnReset has succeeded, its job polled after the
\* reset.
C11_Witness ==
  \E r \in Resources :
    /\ op[r].kind = "delete" /\ Finished(r) /\ op[r].error = ""
    /\ op[r].d.SettingsApplyTime = OnResetApplyTime
    /\ Has(r, "Reset") /\ Has(r, "Poll")

\* C12: when the job poller reports a failed job or a timeout, create and update
\* have returned an error without re-reading the volumes and without assigning
\* the identifier, the stored state being as before; the volumes are re-read
\* only after a job that succeeded.
C12_JobFailureSkipsReconciliation ==
  \A r \in Resources :
    op[r].kind \in {"create", "update"} =>
      /\ (Has(r, "Job") /\ EventOf(r, "Job").key # "Succeeded") =>
           /\ Finished(r) /\ op[r].error # ""
           /\ ~Has(r, "Volumes")
           /\ op[r].d.ID = ""
           /\ tfstate[r] = op[r].prior
      /\ Has(r, "Volumes") =>
           /\ Has(r, "Job") /\ EventOf(r, "Job").key = "Succeeded"
           /\ \A v \in Events(r, "Volumes") : \E j \in Events(r, "Job") : j < v

\* C12 witness: an update of a stored volume whose job timed out has failed.
C12_Witness ==
  \E r \in Resources :
    /\ op[r].kind = "update" /\ Finished(r) /\ op[r].error # ""
    /\ Has(r, "Job") /\ EventOf(r, "Job").key = "TimedOut"
    /\ op[r].prior.present

\* C13 as stated: in create, update and delete alike, the job poller is invoked
\* with the fixed 10 second interval and with the volume_job_timeout of the
\* operation as its maximum wait.
C13_PollWithJobTimeout ==
  \A r \in Resources :
    op[r].kind \in Mutating =>
      \A p \in Events(r, "Poll") :
        /\ op[r].trace[p].n = intervalStorageVolumeJobCheckTime
        /\ op[r].trace[p].m = op[r].d.VolumeJobTimeout

\* C14: in create and update every re-read of the volumes comes after a job
\* outcome Succeeded followed by the settle delay of 60 seconds; the volumes
\* are never re-read before the job succeeded and the delay passed.
C14_SettleDelayBeforeReconciliation ==
  \A r \in Resources :
    op[r].kind \in {"create", "update"} =>
      \A v \in Events(r, "Volumes") :
        \E j \in Events(r, "Job"), s \in Events(r, "Sleep") :
          /\ op[r].trace[j].key = "Succeeded"
          /\ op[r].trace[s].n = SettleDelay
          /\ j < s /\ s < v

\* C14 witness: a create has re-read the volumes after its job succeeded and
\* has found its volume.
C14_Witness ==
  \E r \in Resources :
    /\ op[r].kind = "create" /\ Finished(r) /\ op[r].error = ""
    /\ Has(r, "Volumes") /\ Has(r, "Sleep")
    /\ op[r].d.ID # ""

\* C15: create and update write the state only on returning without error: the
\* state written is the plan with the identifier found in the controller's
\* volume list; while the operation runs and after any error the stored state
\* is what it was before the operation.
C15_StateWrittenOnlyOnSuccess ==
  \A r \in Resources :
    op[r].kind \in {"create", "update"} =>
      IF Finished(r) /\ op[r].error = ""
      THEN /\ tfstate[r] = Stored(op[r].d)
           /\ tfstate[r].d.ID \in VolumeIDs
           /\ Has(r, "Volumes")
      ELSE tfstate[r] = op[r].prior

\* C15 witness: an update has failed after its request was accepted, the stored
\* state still being the volume as created.
C15_Witness ==
  \E r \in Resources :
    /\ op[r].kind = "update" /\ Finished(r) /\ op[r].error # ""
    /\ Has(r, "PATCH") /\ op[r].jobID # ""
    /\ tfstate[r].present /\ tfstate[r].d.ID \in VolumeIDs
    /\ tfstate[r].d # op[r].d

\* C16: an update whose plan has encrypted = false while the stored volume has
\* encrypted = true has failed at once with "Invalid Configuration.": no
\* session opened, no lock taken, no request sent (its trace is empty), and
\* the stored state is unchanged.
C16_DisablingEncryptionRefused ==
  \A r \in Resources :
    (/\ op[r].kind = "update"
     /\ ~op[r].d.Encrypted /\ op[r].prior.d.Encrypted) =>
      /\ Finished(r) /\ op[r].error = "Invalid Configuration."
      /\ op[r].trace = <<>>
      /\ LockKey(op[r].d) \notin mutex
      /\ tfstate[r] = op[r].prior

\* C16 witness: an update asking for encrypted = false on a volume stored as
\* encrypted has been refused.
C16_Witness ==
  \E r \in Resources :
    /\ op[r].kind = "update" /\ Finished(r)
    /\ ~op[r].d.Encrypted /\ tfstate[r].present /\ tfstate[r].d.Encrypted
    /\ op[r].error = "Invalid Configuration."

\* C17 as stated: a reconciliation that does not find the volume is an error in
\* create, update and read: create and update have failed when the volume list
\* holds no volume of the desired name, and a read whose volume the controller
\* reports as 404 has returned an error.
C17_NotFoundIsHardError ==
  \A r \in Resources :
    /\ (/\ op[r].kind \in {"create", "update"}
        /\ \E v \in Events(r, "Volumes") :
             op[r].trace[v].n = 1 /\ op[r].trace[v].m = 0) =>
         Finished(r) /\ op[r].error # ""
    /\ (/\ op[r].kind = "read"
        /\ \E g \in Events(r, "GetVolume") : op[r].trace[g].n = StatusNotFound) =>
         Finished(r) /\ op[r].error # ""

\* C17 amended: create and update have failed, with no identifier assigned and
\* the stored state as before, when the volume list holds no volume of the
\* desired name; a read whose volume the controller reports as 404 has returned
\* no error and the resource is removed from the state.
C17_NotFoundFailsCreateAndUpdateOnly ==
  \A r \in Resources :
    /\ (/\ op[r].kind \in {"create", "update"}
        /\ \E v \in Events(r, "Volumes") :
             op[r].trace[v].n = 1 /\ op[r].trace[v].m = 0) =>
         /\ Finished(r) /\ op[r].error # ""
         /\ op[r].d.ID = "" /\ tfstate[r] = op[r].prior
    /\ (/\ op[r].kind = "read"
        /\ \E g \in Events(r, "GetVolume") : op[r].trace[g].n = StatusNotFound) =>
         /\ Finished(r) /\ op[r].error = ""
         /\ ~tfstate[r].present

\* C17 witness: a create has failed because the volume list held no volume of
\* its name, and a read of another resource was answered 404.
C17_Witness ==
  \E p, q \in Resources :
    /\ op[p].kind = "create" /\ Finished(p) /\ op[p].error # ""
    /\ \E v \in Events(p, "Volumes") :
         op[p].trace[v].n = 1 /\ op[p].trace[v].m = 0
    /\ op[q].kind = "read" /\ Finished(q)
    /\ \E g \in Events(q, "GetVolume") : op[q].trace[g].n = StatusNotFound

\* C18: a read that finds the volume gone (404) has succeeded: the resource is
\* removed from the state and no error is reported. After every other failure
\* of a read (no session, a transport error, another status) an error is
\* reported and the stored state is as it was.
C18_ReadNotFoundRemovesResource ==
  \A r \in Resources :
    (op[r].kind = "read" /\ Finished(r)) =>
      LET gone == \E g \in Events(r, "GetVolume") :
                     op[r].trace[g].n = StatusNotFound /\ op[r].trace[g].m = 1
          fetched == \E g \in Events(r, "GetVolume") : op[r].trace[g].m = 0
      IN /\ gone => (tfstate[r] = NoState /\ op[r].error = "")
         /\ (~gone /\ ~fetched) =>
              (tfstate[r] = op[r].prior /\ op[r].error # "")
         /\ fetched => (tfstate[r].present /\ op[r].error = "")

\* C18 witness: a read of a stored volume was answered 404 and the resource is
\* no longer in the state.
C18_Witness ==
  \E r \in Resources :
    /\ op[r].kind = "read" /\ Finished(r) /\ op[r].error = ""
    /\ op[r].prior.present /\ ~tfstate[r].present
    /\ \E g \in Events(r, "GetVolume") : op[r].trace[g].n = StatusNotFound

\* a read answered with another Redfish error has reported it and kept the
\* stored state
C18_WitnessOtherFailure ==
  \E r \in Resources :
    /\ op[r].kind = "read" /\ Finished(r) /\ op[r].error # ""
    /\ \E g \in Events(r, "GetVolume") : op[r].trace[g].n = 400
    /\ tfstate[r].present

\* C19 as stated: a delete that has returned without error has, after its job
\* succeeded, checked whether the deleted volume still exists and was answered
\* that it does not.
C19_DeleteConfirmsAbsence ==
  \A r \in Resources :
    (op[r].kind = "delete" /\ Finished(r) /\ op[r].error = "") =>
      \E j \in Events(r, "Job"), x \in Events(r, "Exists") :
        /\ op[r].trace[j].key = "Succeeded"
        /\ j < x
        /\ op[r].trace[x].key = op[r].d.ID
        /\ op[r].trace[x].n = 0

\* C20 as stated: an import whose ID is not valid JSON has failed at once with
\* no side effect: an error is reported and no attribute of the state is
\* written.
C20_MalformedImportWritesNothing ==
  \A r \in Resources :
    (/\ op[r].kind = "import"
     /\ \E u \in Events(r, "Unmarshal") : op[r].trace[u].m = 1) =>
      /\ op[r].error # ""
      /\ ~Has(r, "SetAttribute")

\* C21 as stated: in create the drive lookup accepts exactly when every
\* requested drive name is the name of a drive attached to the controller:
\* the create goes on past the lookup if and only if all names are attached,
\* and otherwise it has failed with no submission.
C21_DrivesAcceptedIffAllAttached ==
  \A r \in Resources :
    op[r].kind = "create" =>
      \A g \in Events(r, "Drives") :
        op[r].trace[g].n = 1 =>
          /\ op[r].trace[g].m = 1 =>
               op[r].error # "Error when getting the drives"
          /\ op[r].trace[g].m = 0 =>
               Finished(r) /\ op[r].error # "" /\ Submissions(r) = {}

\* C22: after a job that failed or timed out, or a power operation that failed,
\* a create, update or delete does nothing more than release its lock: it has
\* returned an error, no request follows the failure, its only mutating
\* request is the one sent before, and the job reference is the one the
\* controller returned.
C22_NoRollbackAfterLocalFailure ==
  \A r \in Resources :
    op[r].kind \in Mutating =>
      \A f \in Events(r, "Job") \cup Events(r, "Power") :
        op[r].trace[f].key \notin {"Succeeded", "reached"} =>
          /\ Finished(r) /\ op[r].error # ""
          /\ \A i \in (f + 1)..Len(op[r].trace) : op[r].trace[i].ev = "Unlock"
          /\ Cardinality(Submissions(r)) = 1
          /\ \A s \in Submissions(r) : s < f
          /\ op[r].jobID = EventOf(r, "Answer").key /\ op[r].jobID # ""

\* C22 witness: a create with OnReset whose job timed out after the reset has
\* failed, its job reference kept.
C22_Witness ==
  \E r \in Resources :
    /\ op[r].kind = "create" /\ Finished(r) /\ op[r].error # ""
    /\ Has(r, "Reset") /\ Has(r, "Job") /\ EventOf(r, "Job").key = "TimedOut"
    /\ op[r].jobID # ""

\* C23: in create the POST is sent only after a successful generation probe,
\* and its payload carries the drives in exactly one place: Links.Drives when
\* the probe found generation 17 or above, the top-level Drives otherwise;
\* after a failed probe the create has failed with no submission.
C23_DrivesAttachedByGeneration ==
  \A r \in Resources :
    op[r].kind = "create" =>
      /\ \A s \in Events(r, "POST") :
           \E p \in Events(r, "Probe") :
             /\ p < s /\ op[r].trace[p].n = 1
             /\ op[r].trace[s].n + op[r].trace[s].m = 1
             /\ op[r].trace[s].n = op[r].trace[p].m
      /\ \A p \in Events(r, "Probe") :
           op[r].trace[p].n = 0 =>
             Finished(r) /\ op[r].error # "" /\ Submissions(r) = {}

\* C23 witness: a create on a server of generation 17 has sent its POST with the
\* drives under Links only.
C23_Witness ==
  \E r \in Resources :
    /\ op[r].kind = "create" /\ op[r].gen17
    /\ Has(r, "POST") /\ EventOf(r, "POST").n = 1 /\ EventOf(r, "POST").m = 0

\* C24: a create or update that returned without error has set the identifier
\* to the ODataID of the first volume of the controller's list whose name is
\* the desired volume name; with apply time Immediate no reset was performed.
C24_IdentifierOfFirstNamedVolume ==
  \A r \in Resources :
    (op[r].kind \in {"create", "update"} /\ Finished(r) /\ op[r].error = "") =>
      /\ Has(r, "Volumes")
      /\ EventOf(r, "Volumes").m = 1
      /\ op[r].d.ID = EventOf(r, "Volumes").key
      /\ op[r].d.ID \in VolumeIDs
      /\ tfstate[r].d.ID = op[r].d.ID
      /\ op[r].d.SettingsApplyTime = ImmediateApplyTime => ~Has(r, "Reset")

\* C24 witness: an update with Immediate has succeeded and carries the
\* identifier of the volume found, with no reset.
C24_Witness ==
  \E r \in Resources :
    /\ op[r].kind = "update" /\ Finished(r) /\ op[r].error = ""
    /\ op[r].d.SettingsApplyTime = ImmediateApplyTime
    /\ op[r].d.ID = "/Volumes/V1" /\ ~Has(r, "Reset")

\* every event e2 of r comes after an event e1 of r
After(r, e1, e2) ==
  \A j \in Events(r, e2) : \E i \in Events(r, e1) : i < j

\* C25: in every create and update the stages come in the order Lock, apply
\* time check, submission, reset (if and only if OnReset), job poll,
\* reconciliation, Unlock; the job polled is the Location the submission of
\* this operation was answered with; and each stage follows the success of
\* its predecessor.
C25_StagesInOrder ==
  \A r \in Resources :
    op[r].kind \in {"create", "update"} =>
      /\ After(r, "Lock", "ApplyTimes")
      /\ After(r, "ApplyTimes", "POST") /\ After(r, "ApplyTimes", "PATCH")
      /\ After(r, "Answer", "Reset") /\ After(r, "Answer", "Poll")
      /\ \A a \in Events(r, "Answer") : \E s \in Submissions(r) : s < a
      /\ After(r, "Power", "Poll") \/ ~Has(r, "Reset")
      /\ After(r, "Job", "Volumes")
      /\ \A u \in Events(r, "Unlock") : u = Len(op[r].trace)
      /\ Submissions(r) # {} => op[r].supported = "yes"
      /\ Has(r, "Poll") =>
           /\ Has(r, "Reset") <=> op[r].d.SettingsApplyTime = OnResetApplyTime
           /\ Has(r, "Reset") => EventOf(r, "Power").key = "reached"
           /\ EventOf(r, "Poll").key = EventOf(r, "Answer").key
           /\ EventOf(r, "Answer").n = StatusAccepted
           /\ EventOf(r, "Poll").key # ""
      /\ Has(r, "Volumes") => EventOf(r, "Job").key = "Succeeded"
      /\ \A e \in {"ApplyTimes", "Answer", "Reset", "Poll", "Volumes", "Unlock"} :
           Cardinality(Events(r, e)) <= 1

\* C25 witness: a create with OnReset has gone through all its stages and
\* returned without error.
C25_Witness ==
  \E r \in Resources :
    /\ op[r].kind = "create" /\ Finished(r) /\ op[r].error = ""
    /\ Has(r, "ApplyTimes") /\ Has(r, "POST") /\ Has(r, "Reset")
    /\ Has(r, "Poll") /\ Has(r, "Volumes") /\ Has(r, "Unlock")

\* C26: the poller never fetches or waits beyond the maximum wait; a fetch that
\* yields succeeded ends the loop with Succeeded, after as many fetches as
\* intervals have passed; and once the loop has a result no fetch follows.
C26_SucceededAfterExactlyNPolls ==
  /\ [](\A r \in Resources :
          LET p == op[r].poller IN
          op[r].kind \in Mutating =>
            /\ p.elapsed <= PollerMaxWait(r)
            /\ p.polls * intervalStorageVolumeJobCheckTime <= PollerMaxWait(r)
            /\ p.last = "succeeded" <=> p.result = "Succeeded"
            /\ p.result = "Succeeded" =>
                 /\ p.polls >= 1
                 /\ p.elapsed = p.polls * intervalStorageVolumeJobCheckTime
            /\ Has(r, "Poll") =>
                 /\ EventOf(r, "Poll").m = PollerMaxWait(r)
                 /\ EventOf(r, "Poll").n = intervalStorageVolumeJobCheckTime
                 /\ EventOf(r, "Job").key = p.result)
  /\ [][\A r \in Resources :
          op[r].poller.result # "" => op'[r].poller = op[r].poller]_vars

\* C26 witness: the job succeeded on the second fetch, after a transport error
\* on the first, and the operation went on to the reconciliation.
C26_Witness ==
  \E r \in Resources :
    /\ op[r].kind = "create" /\ op[r].pc = "reconcile"
    /\ op[r].poller.result = "Succeeded" /\ op[r].poller.polls = 2
    /\ op[r].poller.seen = {"transport", "succeeded"}

\* C27: a transport error does not end the loop: after it the loop has no
\* result unless the maximum wait elapsed. When every fetch until the end
\* yielded a transport error the result is TimedOut, reached exactly at the
\* maximum wait; and an operation whose wait timed out has returned an error,
\* the stored state as before.
C27_TransportErrorsEndInTimeout ==
  \A r \in Resources :
    LET p == op[r].poller IN
    op[r].kind \in Mutating =>
      /\ p.last = "transport" => p.result \in {"", "TimedOut"}
      /\ (p.last = "transport" /\ p.result = "") =>
           ENABLED (PollerFetch(r) \/ PollerTimeout(r))
      /\ (p.result # "" /\ p.seen \subseteq {"transport"}) =>
           p.result = "TimedOut"
      /\ p.result = "TimedOut" =>
           /\ p.elapsed = PollerMaxWait(r)
           /\ p.seen \subseteq {"transport", "running"}
           /\ (p.polls + 1) * intervalStorageVolumeJobCheckTime >= PollerMaxWait(r)
      /\ (p.result = "TimedOut" /\ op[r].pc # "poll") =>
           /\ Finished(r) /\ op[r].error # ""
           /\ tfstate[r] = op[r].prior

\* C27 witness: a delete whose every fetch yielded a transport error until the
\* maximum wait of 25 seconds has failed, the volume still in the state.
C27_Witness ==
  \E r \in Resources :
    /\ op[r].kind = "delete" /\ Finished(r) /\ op[r].error # ""
    /\ op[r].poller.result = "TimedOut" /\ op[r].poller.seen = {"transport"}
    /\ op[r].poller.polls = 2 /\ op[r].poller.elapsed = 25
    /\ tfstate[r].present

\* C28: while a volume stays in the state, no step takes its stored encrypted
\* from true to false (only Update and Read write the state of a stored
\* volume); and no update of a volume stored as encrypted has sent a PATCH
\* with Encrypted false.
C28_EncryptionMonotonic ==
  /\ [][\A r \in Resources :
          (/\ tfstate[r].present /\ tfstate[r].d.Encrypted
           /\ tfstate'[r].present) => tfstate'[r].d.Encrypted]_vars
  /\ [](\A r \in Resources :
          (op[r].kind = "update" /\ Has(r, "PATCH") /\ op[r].prior.d.Encrypted) =>
            op[r].d.Encrypted)

\* C28 witness: a read of a volume stored as encrypted has refreshed the state,
\* which still says encrypted.
C28_Witness ==
  \E r \in Resources :
    /\ op[r].kind = "read" /\ Finished(r) /\ op[r].error = ""
    /\ op[r].prior.present /\ op[r].prior.d.Encrypted
    /\ tfstate[r].present /\ tfstate[r].d.Encrypted
    /\ Has(r, "GetVolume")

\* the attributes the claim says a read leaves alone
KeptByRead ==
  {"Encrypted", "DiskCachePolicy", "RaidType", "StorageControllerID", "SystemID",
   "SettingsApplyTime", "ResetType", "ResetTimeout", "VolumeJobTimeout"}

\* C30: after a read that fetched the volume, the stored capacity_bytes, id,
\* optimum_io_size_bytes, read_cache_policy, volume_name, volume_type,
\* write_cache_policy and drives are the values of one report of the
\* controller, and encrypted, disk_cache_policy, raid_type,
\* storage_controller_id, system_id, settings_apply_time, reset_type,
\* reset_timeout and volume_job_timeout are those of the prior state.
C30_ReadRefreshesOnlyReportedAttributes ==
  \A r \in Resources :
    (/\ op[r].kind = "read" /\ Finished(r)
     /\ \E g \in Events(r, "GetVolume") : op[r].trace[g].m = 0) =>
      /\ tfstate[r].present
      /\ \A f \in KeptByRead : tfstate[r].d[f] = op[r].prior.d[f]
      /\ tfstate[r].d.ID \in VolumeIDs /\ tfstate[r].d.VolumeName \in VolumeNames
      /\ \E rep \in ReportedAttributes :
           /\ tfstate[r].d.CapacityBytes = rep.CapacityBytes
           /\ tfstate[r].d.OptimumIoSizeBytes = rep.OptimumIOSizeBytes
           /\ tfstate[r].d.ReadCachePolicy = rep.ReadCachePolicy
           /\ tfstate[r].d.WriteCachePolicy = rep.WriteCachePolicy
           /\ tfstate[r].d.VolumeType = rep.VolumeType
           /\ tfstate[r].d.Drives = rep.Drives

\* C30 witness: a read of an encrypted RAID1 volume fetched a report with
\* another capacity, raid type and encryption: the capacity, name and id
\* stored changed, encrypted and raid_type did not.
C30_Witness ==
  \E r \in Resources :
    /\ op[r].kind = "read" /\ Finished(r) /\ op[r].error = ""
    /\ op[r].prior.present /\ tfstate[r].present
    /\ op[r].prior.d.Encrypted /\ tfstate[r].d.Encrypted
    /\ tfstate[r].d.CapacityBytes # op[r].prior.d.CapacityBytes
    /\ tfstate[r].d.VolumeName # op[r].prior.d.VolumeName
    /\ tfstate[r].d.ID # op[r].prior.d.ID
    /\ tfstate[r].d.RaidType = "RAID1"

\* C29: a create, update or delete that acquired its lock eventually returns
\* with the lock released; an operation waiting for its lock eventually
\* acquires it; and no operation acquires more than one lock, or waits for one
\* while it holds one.
C29_TerminationAndNoDeadlock ==
  /\ \A r \in Resources :
       Guarded(r) ~> (/\ Finished(r)
                      /\ \A l \in Events(r, "Lock") : op[r].trace[l].key \notin mutex)
  /\ \A r \in Resources :
       (op[r].kind \in Mutating /\ op[r].pc = "lock") ~> Guarded(r)
  /\ [](\A r \in Resources :
          /\ Cardinality(Events(r, "Lock")) <= 1
          /\ (op[r].kind \in Mutating /\ op[r].pc = "lock") => ~Has(r, "Lock"))

\* C29 witness: an operation is past its Lock on an endpoint on which another
\* operation has returned after holding the lock.
C29_Witness ==
  \E p, q \in Resources :
    /\ p # q /\ op[p].d.Endpoint = op[q].d.Endpoint
    /\ Finished(p) /\ Has(p, "Lock") /\ Has(p, "Unlock")
    /\ Guarded(q) /\ Submissions(q) # {}

\* the delete of r was answered 202 with a job reference, its reset (required
\* with OnReset) reached the power state, and its job succeeded
DeleteWentThrough(r) ==
  /\ \E a \in Events(r, "Answer") :
       /\ op[r].trace[a].n = StatusAccepted /\ op[r].trace[a].m = 0
       /\ op[r].trace[a].key # ""
  /\ op[r].d.SettingsApplyTime = OnResetApplyTime =>
       \E p \in Events(r, "Power") : op[r].trace[p].key = "reached"
  /\ \E j \in Events(r, "Job") : op[r].trace[j].key = "Succeeded"

\* C31: a delete has removed the resource from the state exactly when it
\* returned after an accepted request with a job reference, a successful reset
\* where one is required, and a succeeded job, and then it reports no error;
\* until then, and after every failure, the stored state is the prior state,
\* and a delete that returned after a failure has reported an error.
C31_DeleteRemovesOnlyAfterSuccess ==
  \A r \in Resources :
    op[r].kind = "delete" =>
      IF Finished(r) /\ DeleteWentThrough(r)
      THEN tfstate[r] = NoState /\ op[r].error = ""
      ELSE /\ tfstate[r] = op[r].prior /\ tfstate[r].present
           /\ Finished(r) => op[r].error # ""

\* C31 witness: a delete with OnReset whose job failed after a successful reset
\* has reported an error, the volume still in the state.
C31_Witness ==
  \E r \in Resources :
    /\ op[r].kind = "delete" /\ Finished(r) /\ op[r].error # ""
    /\ op[r].d.SettingsApplyTime = OnResetApplyTime
    /\ Has(r, "Power") /\ EventOf(r, "Power").key = "reached"
    /\ Has(r, "Job") /\ EventOf(r, "Job").key = "Failed"
    /\ tfstate[r].present /\ tfstate[r] = op[r].prior

\* a delete that went through has removed the resource
C31_WitnessRemoved ==
  \E r \in Resources :
    /\ op[r].kind = "delete" /\ Finished(r) /\ DeleteWentThrough(r)
    /\ ~tfstate[r].present

\* C32: the RAIDType of the payload create submits is the raid_type of the plan
\* whenever that is not empty, whatever the volume_type; with an empty
\* raid_type it is the value mapped from the volume_type: NonRedundant to
\* RAID0, Mirrored to RAID1, StripedWithParity to RAID5, SpannedMirrors to
\* RAID10, SpannedStripesWithParity to RAID50.
C32_RaidTypeOverridesVolumeType ==
  /\ \A r \in Resources :
       op[r].kind = "create" =>
         /\ Has(r, "POST") => Has(r, "Payload")
         /\ \A p \in Events(r, "Payload") :
              IF op[r].d.RaidType # ""
              THEN op[r].trace[p].key = op[r].d.RaidType
              ELSE op[r].trace[p].key = volumeTypeMap[op[r].d.VolumeType]
  /\ \A at \in ApplyTimes :
       LET unset == [Volume("bmcA", "", at, "ForceRestart", 0, 0, "", FALSE)
                       EXCEPT !.RaidType = ""]
       IN /\ raidType([unset EXCEPT !.VolumeType = "NonRedundant"]) = "RAID0"
          /\ raidType([unset EXCEPT !.VolumeType = "Mirrored"]) = "RAID1"
          /\ raidType([unset EXCEPT !.VolumeType = "StripedWithParity"]) = "RAID5"
          /\ raidType([unset EXCEPT !.VolumeType = "SpannedMirrors"]) = "RAID10"
          /\ raidType([unset EXCEPT !.VolumeType = "SpannedStripesWithParity"]) = "RAID50"

\* C32 witness: a create whose plan has raid_type RAID5 and volume_type Mirrored
\* has sent its POST with RAIDType RAID5.
C32_Witness ==
  \E r \in Resources :
    /\ op[r].kind = "create" /\ Has(r, "POST")
    /\ op[r].d.RaidType = "RAID5" /\ op[r].d.VolumeType = "Mirrored"
    /\ EventOf(r, "Payload").key = "RAID5"
====
